---- MODULE Spec2Model ----
(***************************************************************************)
(* Model of src/inference.py: the resumable generation orchestrator        *)
(* inference(args) and the logging set-up of __main__.                     *)
(*                                                                         *)
(* A source text is modelled by its declaration structure: a record        *)
(* [parses, methods] where methods is the sequence of the methods of the   *)
(* file, each [name, body].  A body is the placeholder marker Todo, the    *)
(* elision Elided the isolator puts in place of a sibling stub, an         *)
(* original implementation, or a generated body.                           *)
(***************************************************************************)
EXTENDS Integers, Sequences, FiniteSets, TLC

\* ---------------------------------------------------------------- bounds
MaxTasks  == 2      \* tasks in the data file: 1..MaxTasks
MaxSample == 2      \* args.num_sample: 1..MaxSample
MaxPairs  == 4      \* (task, sample-index) pairs of a run: tasks * num_sample
MaxRuns   == 2      \* process starts that are explored
MaxPid    == 2      \* process ids the operating system hands out
MaxPre    == 1      \* Samples an output file may hold before the first run
MaxMethods == 3     \* methods of a source text the ordering step is tried on

\* ------------------------------------------------------------- constants
Modes    == {"holistic", "independent", "incremental"}
IncModes == {"seq", "rev", "rand"}

Todo   == "TODO"
Elided == "ELIDED"

\* Raw model texts: two that hold a fenced method, one that is prose only.
Outputs == {"raw_g1", "raw_g2", "prose"}

\* ------------------------------------------------------------- the tasks
Method(n, b) == [name |-> n, body |-> b]

Code(ms) == [parses |-> TRUE, methods |-> ms]

EmptyCode == Code(<<>>)

\* The shapes of task source a data file is made of: two stubs foo#0, bar#0;
\* fully implemented; one stub foo#1 after an implemented overload foo#0; a
\* text that does not parse.
Shapes ==
    << Code(<<Method("foo", Todo), Method("bar", Todo)>>),
       Code(<<Method("done", "impl")>>),
       Code(<<Method("foo", "impl"), Method("foo", Todo)>>),
       [parses |-> FALSE, methods |-> <<>>] >>

\* Record i of the task stream (args.data) of a file whose first task has
\* shape number first.
Task(i, first) ==
    [ task_id      |-> i,
      code         |-> Shapes[((first + i - 2) % Len(Shapes)) + 1],
      code_context |-> <<"ctx", i>>,
      target       |-> <<"target", i>> ]

\* A Sample some other producer left in the output file.
Foreign == [task_id |-> 0, target |-> <<"target", 0>>, completion |-> "other"]

\* ------------------------------------------------ external collaborators
\* app.util.io.extract_code: the method inside the fence, or no code found.
ExtractOk(outputs) == outputs # "prose"

extract_code(outputs) ==
    CASE outputs = "raw_g1" -> "g1"
      [] outputs = "raw_g2" -> "g2"
      [] OTHER -> "none"

\* app.prompt.template.complete_template.format_messages, joined as query() does.
Prompt(code, code_context) == [code_context |-> code_context, code |-> code]

\* Occurrence index of method i among the methods of the same name.
SeqOf(ms, i) == Cardinality({j \in 1..(i - 1) : ms[j].name = ms[i].name})

StubIdx(code) == {i \in 1..Len(code.methods) : code.methods[i].body = Todo}

\* app.static_analyzer.class_compose_tool.get_todo_methods
get_todo_methods(code) ==
    LET S == StubIdx(code)
        nth(k) == CHOOSE i \in S : Cardinality({j \in S : j < i}) = k - 1
    IN  [k \in 1..Cardinality(S) |->
            [name |-> code.methods[nth(k)].name, seq |-> SeqOf(code.methods, nth(k))]]

\* Position of stub (name, seq) in code; 0 when code holds no such stub.
Find(code, name, seq) ==
    LET hit == {i \in StubIdx(code) :
                    code.methods[i].name = name /\ SeqOf(code.methods, i) = seq}
    IN  IF ~code.parses \/ hit = {} THEN 0 ELSE CHOOSE i \in hit : TRUE

\* app.static_analyzer.class_compose_tool.retain_todo_method
retain_todo_method(code, name, seq) ==
    LET t == Find(code, name, seq)
    IN  [code EXCEPT !.methods =
            [i \in 1..Len(code.methods) |->
                IF i # t /\ code.methods[i].body = Todo
                THEN Method(code.methods[i].name, Elided)
                ELSE code.methods[i]]]

\* app.static_analyzer.class_compose_tool.replace_method
replace_method(code, text, name, seq) ==
    LET t == Find(code, name, seq)
    IN  [code EXCEPT !.methods[t].body = text]

\* -------------------------------------------------------- pure helpers
Reverse(s) == [i \in 1..Len(s) |-> s[Len(s) + 1 - i]]

IsPrefix(s, t) == Len(s) <= Len(t) /\ SubSeq(t, 1, Len(s)) = s

Perms(s) ==
    {[i \in 1..Len(s) |-> s[p[i]]] :
        p \in {q \in [1..Len(s) -> 1..Len(s)] :
                  \A a, b \in 1..Len(s) : a # b => q[a] # q[b]}}

\* OrderChoices as it would be if rev left the list as located.
OrderChoicesRevLost(L, im) ==
    CASE im = "rand" -> Perms(L)
      [] OTHER       -> {L}

\* The ordering step of incremental mode: the traversal orders it can produce
\* (reversed() for rev, random.shuffle for rand, the list itself for seq).
OrderChoices(L, im) ==
    CASE im = "rev"  -> {Reverse(L)}
      [] im = "rand" -> Perms(L)
      [] OTHER       -> {L}

\* Traversals as it would be if independent mode applied the ordering too.
TraversalsAlways(m, L, im) == OrderChoices(L, im)

\* The traversal orders of the per-stub loop: independent mode iterates the
\* located list, incremental mode the outcome of the ordering step.
Traversals(m, L, im) == IF m = "incremental" THEN OrderChoices(L, im) ELSE {L}

\* The located list object after the ordering step that produced order:
\* random.shuffle permutes it in place, reversed() only reads it.
LocatedAfter(m, L, im, order) ==
    IF m = "incremental" /\ im = "rand" THEN order ELSE L

\* ----------------------------------------------------------------- state
VARIABLES
    mode,               \* args.mode
    incremental_mode,   \* args.incremental_mode
    num_sample,         \* args.num_sample
    tasks,              \* the records of args.data
    exists,             \* os.path.exists(args.output)
    file,               \* the Sample records of args.output
    file0,              \* the Sample records the output held before the first run
    logs,               \* logs/inference-<pid>.log: pid -> the records written
    pc,                 \* where the process is: idle, loop, stubs, query, done, aborted
    pid,                \* os.getpid() of the running process
    runs,               \* process starts so far
    samples,            \* the in-memory Sample list
    idx,                \* pairs of the product the loop has consumed
    result,             \* the running buffer of the pair
    mediate,            \* the per-stub records of the pair
    todo_methods,       \* the stubs of the pair in traversal order
    located,            \* the list object get_todo_methods returned, as it is now
    ti,                 \* position of the per-stub loop in todo_methods
    call,               \* the outstanding model call
    resume,             \* the Sample list this run loaded at its start
    calls,              \* model calls issued by this run
    writes              \* checkpoint writes done by this run

args  == <<mode, incremental_mode, num_sample, tasks>>
disk  == <<exists, file, file0>>
proc  == <<pid, runs>>
local == <<result, mediate, todo_methods, located, ti, call>>
count == <<resume, calls, writes>>
vars  == <<args, disk, logs, pc, proc, samples, idx, local, count>>

NoCall == [active |-> FALSE, code |-> EmptyCode, code_context |-> <<"ctx", 0>>]

\* Total as it would be if each task were processed once only.
TotalTasksOnly == Len(tasks)

\* len(tasks) * args.num_sample: the pairs of the product.
Total == Len(tasks) * num_sample

\* Product as it would be with the two factors swapped (sample-major).
ProductSampleMajor ==
    [i \in 1..Total |->
        [task |-> tasks[((i - 1) % Len(tasks)) + 1], s |-> (i - 1) \div Len(tasks)]]

\* itertools.product(tasks, range(args.num_sample)) as a list.
Product ==
    [i \in 1..Total |->
        [task |-> tasks[((i - 1) \div num_sample) + 1], s |-> (i - 1) % num_sample]]

\* The task of the pair the loop is at.
CurTask == Product[idx + 1].task

Init ==
    /\ mode \in Modes
    /\ incremental_mode \in IncModes
    /\ num_sample \in 1..MaxSample
    /\ \E T \in 1..MaxTasks, first \in 1..Len(Shapes) :
          /\ T * num_sample <= MaxPairs
          /\ tasks = [i \in 1..T |-> Task(i, first)]
    /\ \E k \in 0..MaxPre : file = [i \in 1..k |-> Foreign]
    /\ exists \in {file # <<>>, TRUE}
    /\ file0 = file
    /\ logs = [p \in 1..MaxPid |-> <<>>]
    /\ pc = "idle"
    /\ pid = 1
    /\ runs = 0
    /\ samples = <<>>
    /\ idx = 0
    /\ result = EmptyCode
    /\ mediate = <<>>
    /\ todo_methods = <<>>
    /\ located = <<>>
    /\ ti = 0
    /\ call = NoCall
    /\ resume = <<>>
    /\ calls = 0
    /\ writes = 0

ResetLocal ==
    /\ result' = EmptyCode
    /\ mediate' = <<>>
    /\ todo_methods' = <<>>
    /\ located' = <<>>
    /\ ti' = 0
    /\ call' = NoCall

\* Abort as it would be if the loop body caught the exception and went on
\* with the next pair.
AbortSkipsPair ==
    /\ pc' = "loop"
    /\ idx' = idx + 1
    /\ ResetLocal
    /\ UNCHANGED <<args, disk, logs, proc, samples, count>>

\* An exception leaves inference() and ends the process.
Abort ==
    /\ pc' = "aborted"
    /\ ResetLocal
    /\ UNCHANGED <<args, disk, logs, proc, samples, idx, count>>

\* app.util.io.write_jsonl: the records the file holds after the list is written.
write_jsonl(list) == list

\* app.util.io.stream_jsonl: the records read back from the file.
stream_jsonl(f) == f

\* LoadSamples as it would be if the persisted Samples were not read back.
LoadSamplesNothing(e, f) == <<>>

\* samples = list(stream_jsonl(args.output)) if os.path.exists(args.output) else []
LoadSamples(e, f) == IF e THEN stream_jsonl(f) ELSE <<>>

\* ResumeOffset as it would be if only the Samples of known tasks were counted.
ResumeOffsetMatching(list) ==
    Cardinality({i \in 1..Len(list) :
                    list[i].task_id \in {tasks[j].task_id : j \in 1..Len(tasks)}})

\* ResumeOffset as it would be if a restart also skipped the pair it stopped at.
ResumeOffsetSkipsNext(list) == Len(list) + 1

\* ResumeOffset as it would be if the loop skipped nothing.
ResumeOffsetZero(list) == 0

\* The pairs itertools.islice(..., len(samples), None) skips.
ResumeOffset(list) == Len(list)

\* Checkpoint as it would be if the write were left out of the loop body.
CheckpointSkipped(old, list) == old

\* write_jsonl(args.output, samples) at the end of the loop body: the file
\* that held old holds the whole in-memory list.
Checkpoint(old, list) == write_jsonl(list)

\* A process starts: the log of its pid is opened with filemode "w", the tasks
\* and the persisted Samples are loaded, the loop skips len(samples) pairs.
StartRun ==
    /\ pc \in {"idle", "done", "aborted"}
    /\ runs < MaxRuns
    /\ runs' = runs + 1
    /\ \E p \in 1..MaxPid :
          /\ pid' = p
          /\ logs' = [logs EXCEPT ![p] = <<>>]
    /\ samples' = LoadSamples(exists, file)
    /\ resume' = samples'
    /\ idx' = ResumeOffset(samples')
    /\ pc' = "loop"
    /\ calls' = 0
    /\ writes' = 0
    /\ UNCHANGED <<args, disk, local>>

\* The loop is exhausted: inference() returns.
EndRun ==
    /\ pc = "loop"
    /\ idx >= Total
    /\ pc' = "done"
    /\ UNCHANGED <<args, disk, logs, proc, samples, idx, local, count>>

\* AfterIssue as it would be if the loop went on without waiting for the call.
AfterIssueNoWait == IF mode = "holistic" THEN "loop" ELSE "stubs"

\* Where the process is once a model call is issued: query() is synchronous,
\* the caller waits for its return.
AfterIssue == "query"

\* holistic: query(task["code"], task["code_context"]) is issued.
HolisticCall ==
    /\ pc = "loop"
    /\ idx < Total
    /\ mode = "holistic"
    /\ call' = [active |-> TRUE, code |-> CurTask.code,
                code_context |-> CurTask.code_context]
    /\ calls' = calls + 1
    /\ pc' = AfterIssue
    /\ UNCHANGED <<args, disk, logs, proc, samples, idx, result, mediate,
                   todo_methods, located, ti, resume, writes>>

\* HolisticSample as it would be if the code were extracted from the output.
HolisticSampleExtracted(task, prompt, outputs) ==
    [ task_id    |-> task.task_id,
      target     |-> task.target,
      prompt     |-> prompt,
      completion |-> extract_code(outputs) ]

\* The Sample of a pair in holistic mode.
HolisticSample(task, prompt, outputs) ==
    [ task_id    |-> task.task_id,
      target     |-> task.target,
      prompt     |-> prompt,
      completion |-> outputs ]

\* holistic: the call returns, the Sample is appended and the list is written.
HolisticReturn ==
    /\ pc = "query"
    /\ mode = "holistic"
    /\ \E outputs \in Outputs :
          samples' = Append(samples,
              HolisticSample(CurTask, Prompt(call.code, call.code_context), outputs))
    /\ file' = Checkpoint(file, samples')
    /\ exists' = TRUE
    /\ writes' = writes + 1
    /\ idx' = idx + 1
    /\ pc' = "loop"
    /\ call' = NoCall
    /\ UNCHANGED <<args, file0, logs, proc, result, mediate, todo_methods,
                   located, ti, resume, calls>>

\* InitialBuffer as it would be if the buffer started empty.
InitialBufferEmpty(task) == EmptyCode

\* result = task["code"]
InitialBuffer(task) == task.code

\* independent / incremental: the buffer starts as the task's code, the stubs
\* are located in it and (incremental only) ordered.
BeginStubs ==
    /\ pc = "loop"
    /\ idx < Total
    /\ mode # "holistic"
    /\ InitialBuffer(CurTask).parses
    /\ result' = InitialBuffer(CurTask)
    /\ mediate' = <<>>
    /\ todo_methods' \in
          Traversals(mode, get_todo_methods(result'), incremental_mode)
    /\ located' = LocatedAfter(mode, get_todo_methods(result'), incremental_mode,
                                todo_methods')
    /\ ti' = 1
    /\ pc' = "stubs"
    /\ UNCHANGED <<args, disk, logs, proc, samples, idx, call, count>>

\* get_todo_methods raises on a source that does not parse.
LocateFail ==
    /\ pc = "loop"
    /\ idx < Total
    /\ mode # "holistic"
    /\ ~InitialBuffer(CurTask).parses
    /\ Abort

\* IsolateFrom as it would be if both modes isolated from the running buffer.
IsolateFromResult == result

\* IsolateFrom as it would be if both modes isolated from the task's code.
IsolateFromOriginal == CurTask.code

\* The source the isolator is given for the next stub.
IsolateFrom == IF mode = "independent" THEN CurTask.code ELSE result

\* The next stub is isolated and the model is queried with it.
StubCall ==
    /\ pc = "stubs"
    /\ ti <= Len(todo_methods)
    /\ LET m == todo_methods[ti] IN
       IF Find(IsolateFrom, m.name, m.seq) = 0
       THEN Abort
       ELSE /\ call' = [active |-> TRUE,
                        code |-> retain_todo_method(IsolateFrom, m.name, m.seq),
                        code_context |-> CurTask.code_context]
            /\ calls' = calls + 1
            /\ pc' = AfterIssue
            /\ UNCHANGED <<args, disk, logs, proc, samples, idx, result, mediate,
                           todo_methods, located, ti, resume, writes>>

\* AppendMediate as it would be if the list were rebound to the new record.
AppendMediateRebinds(list, rec) == <<rec>>

\* mediate.append(new_mediate)
AppendMediate(list, rec) == Append(list, rec)

\* TodoAfterSplice as it would be if the stubs were located again in the buffer.
TodoRelocated(todo, buf) == get_todo_methods(buf)

\* The list the per-stub loop iterates once a stub is spliced into buf: the
\* loop keeps the list it was started on.
TodoAfterSplice(todo, buf) == todo

\* The call returns: the extracted method is spliced into the buffer, the
\* mediate record is appended and logged.
StubReturn ==
    /\ pc = "query"
    /\ mode # "holistic"
    /\ \E outputs \in Outputs :
        LET m == todo_methods[ti]
            new_mediate == [ name       |-> m.name,
                             seq        |-> m.seq,
                             prompt     |-> Prompt(call.code, call.code_context),
                             completion |-> outputs ]
        IN  IF ExtractOk(outputs) /\ Find(result, m.name, m.seq) # 0
            THEN /\ result' = replace_method(result, extract_code(outputs), m.name, m.seq)
                 /\ mediate' = AppendMediate(mediate, new_mediate)
                 /\ todo_methods' = TodoAfterSplice(todo_methods, result')
                 /\ logs' = [logs EXCEPT ![pid] =
                                Append(@, [name |-> m.name, seq |-> m.seq,
                                           new_mediate |-> new_mediate])]
                 /\ ti' = ti + 1
                 /\ call' = NoCall
                 /\ pc' = "stubs"
                 /\ UNCHANGED <<args, disk, proc, samples, idx, located, count>>
            ELSE Abort

\* The model client raises: nothing catches it.
QueryFail ==
    /\ pc = "query"
    /\ Abort

\* The Sample of a pair in independent and incremental mode.
StubSample(task, res, med) ==
    [ task_id    |-> task.task_id,
      target     |-> task.target,
      completion |-> res,
      mediate    |-> med ]

\* The per-stub loop is over: the Sample is appended and the list is written.
EndPair ==
    /\ pc = "stubs"
    /\ ti > Len(todo_methods)
    /\ samples' = Append(samples, StubSample(CurTask, result, mediate))
    /\ file' = Checkpoint(file, samples')
    /\ exists' = TRUE
    /\ writes' = writes + 1
    /\ idx' = idx + 1
    /\ pc' = "loop"
    /\ ResetLocal
    /\ UNCHANGED <<args, file0, logs, proc, resume, calls>>

Next ==
    \/ StartRun
    \/ EndRun
    \/ HolisticCall
    \/ HolisticReturn
    \/ BeginStubs
    \/ LocateFail
    \/ StubCall
    \/ StubReturn
    \/ QueryFail
    \/ EndPair

Spec == Init /\ [][Next]_vars

\* The steps of a running process: everything but the start of a new one.
RunStep ==
    \/ EndRun
    \/ HolisticCall
    \/ HolisticReturn
    \/ BeginStubs
    \/ LocateFail
    \/ StubCall
    \/ StubReturn
    \/ QueryFail
    \/ EndPair

\* A started process keeps running: the loop is sequential code and every
\* model call comes back, with an output or with an exception.
FairSpec == Spec /\ WF_vars(RunStep)

\* ------------------------------------------------- the ordering step alone
\* Source texts of up to MaxMethods methods named foo or bar, each a stub or
\* implemented.
Texts ==
    UNION {[1..n -> {Method(nm, b) : nm \in {"foo", "bar"}, b \in {Todo, "impl"}}] :
              n \in 0..MaxMethods}

\* The process is at the top of the loop with one task, whose code is any of
\* Texts, in a mode that locates stubs.
InitOrder ==
    /\ mode \in {"independent", "incremental"}
    /\ incremental_mode \in IncModes
    /\ num_sample = 1
    /\ \E ms \in Texts :
          tasks = << [ task_id |-> 1, code |-> Code(ms),
                       code_context |-> <<"ctx", 1>>, target |-> <<"target", 1>> ] >>
    /\ exists = FALSE
    /\ file = <<>>
    /\ file0 = <<>>
    /\ logs = [p \in 1..MaxPid |-> <<>>]
    /\ pc = "loop"
    /\ pid = 1
    /\ runs = 1
    /\ samples = <<>>
    /\ idx = 0
    /\ result = EmptyCode
    /\ mediate = <<>>
    /\ todo_methods = <<>>
    /\ located = <<>>
    /\ ti = 0
    /\ call = NoCall
    /\ resume = <<>>
    /\ calls = 0
    /\ writes = 0

SpecOrder == InitOrder /\ [][BeginStubs]_vars

\* ---------------------------------------------------------------- claims
\* The task of pair number i (from 0) in task-major, sample-minor order.
TaskOfPair(i) == tasks[(i \div num_sample) + 1]

\* The Samples of the file this program wrote: those after the ones the file
\* held before the first run.
Written == (Len(file0) + 1)..Len(file)

\* code with the extracted completions of the mediate records ms spliced in,
\* in the order of ms.
RECURSIVE SpliceAll(_, _)
SpliceAll(code, ms) ==
    IF Len(ms) = 0
    THEN code
    ELSE LET m == ms[Len(ms)]
         IN  replace_method(SpliceAll(code, SubSeq(ms, 1, Len(ms) - 1)),
                            extract_code(m.completion), m.name, m.seq)

\* The (name, seq) of each record of ms.
StubsOf(ms) == [k \in 1..Len(ms) |-> [name |-> ms[k].name, seq |-> ms[k].seq]]

\* s and t hold the same elements, each as often.
SameElements(s, t) ==
    /\ Len(s) = Len(t)
    /\ \A x \in {s[i] : i \in 1..Len(s)} \cup {t[i] : i \in 1..Len(t)} :
          Cardinality({i \in 1..Len(s) : s[i] = x}) =
          Cardinality({i \in 1..Len(t) : t[i] = x})

\* C1: a run that starts from no persisted output and reaches the end of the
\* loop leaves exactly T*N Samples, and the Sample at position i carries the
\* task_id and the target of task number i div N, in every mode.
C1_CartesianCompleteness ==
    (pc = "done" /\ file0 = <<>>) =>
        /\ Len(file) = Len(tasks) * num_sample
        /\ \A i \in 0..(Len(tasks) * num_sample - 1) :
              /\ file[i + 1].task_id = TaskOfPair(i).task_id
              /\ file[i + 1].target = TaskOfPair(i).target

\* A first run over two tasks and two samples each has ended, in incremental mode.
C1_Witness ==
    /\ pc = "done" /\ file0 = <<>> /\ runs = 1
    /\ mode = "incremental"
    /\ Len(tasks) = 2 /\ num_sample = 2
    /\ Len(file) = 4
    /\ file[2].task_id = 1 /\ file[3].task_id = 2

\* C2: a run that starts on the output of a completed run (T*N Samples)
\* issues no model call, appends nothing, writes nothing and leaves the file
\* as it found it.
C2_ResumeIdempotence ==
    (pc \in {"loop", "stubs", "query", "done", "aborted"}
        /\ Len(resume) = Len(tasks) * num_sample) =>
        /\ pc \in {"loop", "done"}
        /\ calls = 0
        /\ writes = 0
        /\ samples = resume
        /\ file = resume

\* The second run has ended on the complete output of the first.
C2_Witness ==
    /\ runs = 2 /\ pc = "done" /\ file0 = <<>>
    /\ Len(file) = Len(tasks) * num_sample
    /\ Len(resume) = Len(file)
    /\ calls = 0

\* C3: an abort while pair k is processed leaves exactly k Samples persisted;
\* the restart keeps them, loads them as its list, skips k pairs, and starts
\* pair k from the task's original code with an empty mediate list.
C3_ResumeAfterAbort ==
    [][ /\ (pc # "aborted" /\ pc' = "aborted") => (Len(file') = idx' /\ idx' = idx)
        /\ (pc = "aborted" /\ pc' = "loop") =>
              /\ file' = file
              /\ samples' = file
              /\ resume' = file
              /\ idx' = Len(file)
              /\ idx' = idx
        /\ (pc = "loop" /\ pc' = "stubs") =>
              /\ idx' = idx
              /\ result' = TaskOfPair(idx).code
              /\ mediate' = <<>>
              /\ ti' = 1
        /\ (pc = "loop" /\ pc' = "query") =>
              /\ idx' = idx
              /\ call'.code = TaskOfPair(idx).code
      ]_vars

\* After an abort at pair k >= 1 the second run is in the stub loop of pair k,
\* before its first model call.
C3_Witness ==
    /\ runs = 2 /\ file0 = <<>>
    /\ pc = "stubs" /\ ti = 1 /\ Len(todo_methods) = 2
    /\ idx >= 1 /\ idx = Len(resume) /\ writes = 0
    /\ Len(mediate) = 0

\* C4: every step leaves the persisted list a prefix of what it was to become,
\* and a checkpoint write adds exactly one Sample at the end.
C4_AppendOnly ==
    [][ /\ IsPrefix(file, file')
        /\ Len(file') <= Len(file) + 1
        /\ (writes' = writes + 1) => (Len(file') = Len(file) + 1)
        /\ IsPrefix(file0, file')
      ]_vars

\* A restarted run has written its first checkpoint on top of Samples it loaded.
C4_Witness ==
    /\ runs = 2 /\ writes = 1
    /\ Len(resume) >= 1
    /\ Len(file) = Len(resume) + 1
    /\ IsPrefix(resume, file)

\* C5: from the top of the loop to the end of a pair's model calls the
\* persisted list equals the in-memory list.
C5_CheckpointBeforeProceeding ==
    (pc \in {"loop", "stubs", "query"}) => (file = samples)

\* The first model call of a pair is outstanding after an earlier pair of the
\* same run was checkpointed.
C5_Witness ==
    /\ pc = "query" /\ call.active
    /\ writes >= 1
    /\ (mode # "holistic" => ti = 1)
    /\ Len(samples) = Len(resume) + writes
    /\ file = samples

\* C6: a failing step ends the process at once: nothing is appended or
\* written, the file holds the last checkpoint, and the ended process takes no
\* further step (only a new process can start).  A source that does not parse
\* fails the pair, an output with no code in it never reaches the buffer, and
\* the loop moves to the next pair only with a Sample appended and persisted.
C6_FailureAborts ==
    [][ /\ (pc # "aborted" /\ pc' = "aborted") =>
              /\ file' = file
              /\ samples' = samples
              /\ file' = samples'
              /\ Len(file') = idx'
              /\ writes' = writes
              /\ calls' = calls
        /\ (pc = "aborted") => (pc' = "loop" /\ runs' = runs + 1 /\ file' = file)
        /\ (pc = "loop" /\ idx < Len(tasks) * num_sample /\ mode # "holistic"
               /\ ~TaskOfPair(idx).code.parses) => (pc' = "aborted")
        /\ (pc = "query" /\ pc' = "stubs") =>
              ExtractOk(mediate'[Len(mediate')].completion)
        /\ (pc \in {"loop", "stubs", "query"} /\ idx' # idx) =>
              /\ idx' = idx + 1
              /\ Len(samples') = Len(samples) + 1
              /\ Len(file') = Len(file) + 1
      ]_vars

\* A run has aborted on a pair after it had checkpointed an earlier one.
C6_Witness ==
    /\ pc = "aborted"
    /\ writes >= 1
    /\ idx < Len(tasks) * num_sample
    /\ Len(file) = idx

\* C7: every abort adds a record to the log of the process, and no step
\* removes or overwrites a record of any log.
C7_FailureLogged ==
    [][ /\ \A p \in 1..MaxPid : IsPrefix(logs[p], logs'[p])
        /\ (pc # "aborted" /\ pc' = "aborted") => Len(logs'[pid]) > Len(logs[pid])
      ]_vars

\* C8: in independent mode the source of every model call is the isolation of
\* the task's original code for that stub, whatever the other stubs' outputs;
\* the located stubs are processed once each, and the completion is the
\* original code with each one's extracted output spliced in.
C8_IndependentNonInterference ==
    (mode = "independent") =>
        /\ (pc = "query") =>
              call.code = retain_todo_method(TaskOfPair(idx).code,
                              todo_methods[ti].name, todo_methods[ti].seq)
        /\ \A i \in Written :
              LET t == TaskOfPair(i - 1)
                  s == file[i]
              IN  /\ StubsOf(s.mediate) = get_todo_methods(t.code)
                  /\ \A k \in 1..Len(s.mediate) :
                        s.mediate[k].prompt.code =
                            retain_todo_method(t.code, s.mediate[k].name, s.mediate[k].seq)
                  /\ s.completion = SpliceAll(t.code, s.mediate)
                  /\ \A j \in StubIdx(t.code) :
                        \E k \in 1..Len(s.mediate) :
                            s.completion.methods[j].body =
                                extract_code(s.mediate[k].completion)

\* Two persisted Samples of the same two-stub task differ in the output for
\* the first stub and were given the same source for the second.
C8_Witness ==
    /\ mode = "independent"
    /\ \E i, j \in Written :
          /\ i # j
          /\ file[i].task_id = file[j].task_id
          /\ Len(file[i].mediate) = 2
          /\ file[i].mediate[1].completion # file[j].mediate[1].completion
          /\ file[i].mediate[2].prompt = file[j].mediate[2].prompt

\* C9: in incremental mode the source isolated for the k-th processed stub is
\* the buffer with the outputs of the first k-1 processed stubs spliced in;
\* with rev on [foo#0, bar#0], bar#0 goes first and the source for foo#0 holds
\* bar's generated body.
C9_IncrementalAccumulation ==
    (mode = "incremental") =>
        /\ (pc \in {"stubs", "query"}) =>
              result = SpliceAll(TaskOfPair(idx).code, mediate)
        /\ (pc = "query") =>
              call.code = retain_todo_method(SpliceAll(TaskOfPair(idx).code, mediate),
                              todo_methods[ti].name, todo_methods[ti].seq)
        /\ \A i \in Written :
              LET t == TaskOfPair(i - 1)
                  s == file[i]
              IN  /\ \A k \in 1..Len(s.mediate) :
                        s.mediate[k].prompt.code =
                            retain_todo_method(
                                SpliceAll(t.code, SubSeq(s.mediate, 1, k - 1)),
                                s.mediate[k].name, s.mediate[k].seq)
                  /\ (incremental_mode = "rev"
                        /\ get_todo_methods(t.code) =
                              <<[name |-> "foo", seq |-> 0], [name |-> "bar", seq |-> 0]>>) =>
                        /\ StubsOf(s.mediate) =
                              <<[name |-> "bar", seq |-> 0], [name |-> "foo", seq |-> 0]>>
                        /\ \E j \in 1..Len(t.code.methods) :
                              /\ t.code.methods[j].name = "bar"
                              /\ s.mediate[2].prompt.code.methods[j].body =
                                    extract_code(s.mediate[1].completion)
                              /\ s.mediate[2].prompt.code.methods[j].body
                                    \notin {Todo, Elided}

\* A Sample of the two-stub task was persisted in incremental mode with rev.
C9_Witness ==
    /\ mode = "incremental" /\ incremental_mode = "rev"
    /\ \E i \in Written :
          /\ Len(file[i].mediate) = 2
          /\ file[i].mediate[1].name = "bar"
          /\ file[i].mediate[2].name = "foo"
          /\ file[i].mediate[1].completion = "raw_g2"

\* C10: the traversal order of incremental mode is the located list for seq,
\* its exact reverse for rev, and a permutation of it for rand.
C10_OrderingPolicy ==
    (mode = "incremental" /\ pc = "stubs" /\ ti = 1 /\ Len(mediate) = 0) =>
        LET L == get_todo_methods(TaskOfPair(idx).code)
        IN  /\ (incremental_mode = "seq") => (todo_methods = L)
            /\ (incremental_mode = "rev") =>
                  /\ Len(todo_methods) = Len(L)
                  /\ \A k \in 1..Len(L) : todo_methods[k] = L[Len(L) + 1 - k]
            /\ (incremental_mode = "rand") => SameElements(todo_methods, L)

\* rand has put three located stubs in an order that is neither the located
\* one nor its reverse.
C10_Witness ==
    /\ mode = "incremental" /\ incremental_mode = "rand"
    /\ pc = "stubs"
    /\ Len(todo_methods) = 3
    /\ todo_methods # get_todo_methods(TaskOfPair(idx).code)
    /\ todo_methods # Reverse(get_todo_methods(TaskOfPair(idx).code))

\* C11: in independent and incremental mode the mediate records follow the
\* stubs processed so far in processing order, the traversal holds each stub
\* located in the task's code exactly once, and the Sample persisted for the
\* pair carries one mediate record per located stub, in processing order.
C11_MediateLength ==
    [][ /\ (mode # "holistic" /\ pc' \in {"stubs", "query"}) =>
              /\ StubsOf(mediate') = SubSeq(todo_methods', 1, ti' - 1)
              /\ SameElements(todo_methods', get_todo_methods(TaskOfPair(idx').code))
        /\ (pc = "stubs" /\ pc' = "loop") =>
              LET s == file'[Len(file')]
                  L == get_todo_methods(TaskOfPair(idx).code)
              IN  /\ Len(s.mediate) = Len(L)
                  /\ StubsOf(s.mediate) = todo_methods
                  /\ SameElements(StubsOf(s.mediate), L)
      ]_vars

\* A Sample whose two mediate records are in an order rand chose, bar#0 first.
C11_Witness ==
    /\ mode = "incremental" /\ incremental_mode = "rand"
    /\ \E i \in Written :
          /\ Len(file[i].mediate) = 2
          /\ Len(get_todo_methods(TaskOfPair(i - 1).code)) = 2
          /\ file[i].mediate[1].name = "bar"
          /\ file[i].mediate[2].name = "foo"

\* C12 as stated: in incremental mode the list the per-stub loop works on is,
\* at every iteration, what the locator finds in the running buffer.
C12_RelocatedEveryIteration ==
    (mode = "incremental" /\ pc = "stubs" /\ ti <= Len(todo_methods)) =>
        SameElements(todo_methods, get_todo_methods(result))

\* C12 amended: in incremental mode the stubs are located once, in the buffer
\* while it still is the task's original code; the per-stub loop keeps that
\* list through every splice, whatever the locator would find in the buffer.
C12_LocatedOnce ==
    [][ /\ (mode = "incremental" /\ pc' \in {"stubs", "query"}) =>
              SameElements(todo_methods', get_todo_methods(TaskOfPair(idx').code))
        /\ (mode = "incremental" /\ pc \in {"stubs", "query"}
               /\ pc' \in {"stubs", "query"}) => (todo_methods' = todo_methods)
      ]_vars

\* The loop is at its second stub: the buffer holds one stub less than the
\* list the loop works on.
C12_Witness ==
    /\ mode = "incremental"
    /\ pc = "stubs" /\ ti = 2
    /\ Len(todo_methods) = 2
    /\ result # TaskOfPair(idx).code
    /\ Len(get_todo_methods(result)) = 1

\* C13: after the ordering step the list the locator returned is what the
\* locator returned, in the same order, for seq, rev and rand.
C13_OrderingKeepsInput ==
    (mode # "holistic" /\ pc = "stubs" /\ ti = 1 /\ Len(mediate) = 0) =>
        located = get_todo_methods(TaskOfPair(idx).code)

\* C14: when the locator finds no stub in a task's code, the pair goes from
\* the top of the loop to its checkpoint with no model call and no splice, and
\* the Sample persisted holds the task's original code and an empty mediate.
C14_ZeroStubTask ==
    [][ /\ (mode # "holistic" /\ pc = "loop" /\ pc' = "stubs"
               /\ Len(get_todo_methods(TaskOfPair(idx).code)) = 0) =>
              /\ Len(todo_methods') = 0
              /\ calls' = calls
              /\ result' = TaskOfPair(idx).code
        /\ (mode # "holistic" /\ pc = "stubs"
               /\ Len(get_todo_methods(TaskOfPair(idx).code)) = 0) =>
              /\ pc' = "loop"
              /\ calls' = calls
              /\ writes' = writes + 1
              /\ idx' = idx + 1
              /\ Len(file') = Len(file) + 1
              /\ samples' = file'
              /\ file'[Len(file')].task_id = TaskOfPair(idx).task_id
              /\ file'[Len(file')].target = TaskOfPair(idx).target
              /\ file'[Len(file')].completion = TaskOfPair(idx).code
              /\ Len(file'[Len(file')].mediate) = 0
      ]_vars

\* A run over a fully implemented task has ended in independent mode: Samples
\* were written and no model call was made.
C14_Witness ==
    /\ mode = "independent"
    /\ pc = "done" /\ calls = 0 /\ writes >= 1
    /\ Len(get_todo_methods(TaskOfPair(Len(file) - 1).code)) = 0
    /\ file[Len(file)].completion = TaskOfPair(Len(file) - 1).code
    /\ Len(file[Len(file)].mediate) = 0

\* C15: in holistic mode every pair makes one model call, on the task's code
\* and code_context; nothing is located, isolated or spliced; the Sample holds
\* task_id, target, prompt and the raw output as completion, and no mediate.
C15_HolisticMode ==
    (mode = "holistic") =>
        /\ pc # "stubs"
        /\ Len(todo_methods) = 0 /\ Len(mediate) = 0 /\ result = EmptyCode
        /\ (pc \in {"loop", "done"}) => (calls = writes)
        /\ (pc \in {"query", "aborted"}) => (calls = writes + 1)
        /\ (pc = "query") =>
              /\ call.code = TaskOfPair(idx).code
              /\ call.code_context = TaskOfPair(idx).code_context
        /\ \A i \in Written :
              /\ DOMAIN file[i] = {"task_id", "target", "prompt", "completion"}
              /\ file[i].task_id = TaskOfPair(i - 1).task_id
              /\ file[i].target = TaskOfPair(i - 1).target
              /\ file[i].prompt.code = TaskOfPair(i - 1).code
              /\ file[i].prompt.code_context = TaskOfPair(i - 1).code_context
              /\ file[i].completion \in Outputs

\* Two pairs were persisted in holistic mode, one with an output that holds no
\* code, on a task whose code has stubs.
C15_Witness ==
    /\ mode = "holistic"
    /\ writes = 2 /\ calls = 2 /\ pc = "loop"
    /\ file[Len(file)].completion = "prose"
    /\ Len(get_todo_methods(TaskOfPair(Len(file) - 1).code)) = 2

\* C16: in independent mode the per-stub loop works on the located list in
\* the locator's order and the mediate records are persisted in that order,
\* for seq, rev and rand alike.
C16_IndependentNeverReorders ==
    (mode = "independent") =>
        /\ (pc \in {"stubs", "query"}) =>
              /\ todo_methods = get_todo_methods(TaskOfPair(idx).code)
              /\ StubsOf(mediate) =
                    SubSeq(get_todo_methods(TaskOfPair(idx).code), 1, ti - 1)
        /\ \A i \in Written :
              \A k \in 1..Len(file[i].mediate) :
                  /\ file[i].mediate[k].name =
                        get_todo_methods(TaskOfPair(i - 1).code)[k].name
                  /\ file[i].mediate[k].seq =
                        get_todo_methods(TaskOfPair(i - 1).code)[k].seq

\* A two-stub Sample was persisted in independent mode under rev, foo#0 first.
C16_Witness ==
    /\ mode = "independent" /\ incremental_mode = "rev"
    /\ \E i \in Written :
          /\ Len(file[i].mediate) = 2
          /\ file[i].mediate[1].name = "foo"
          /\ file[i].mediate[2].name = "bar"

\* Stubs the locator finds in the tasks of pairs a..(b - 1).
RECURSIVE StubCount(_, _)
StubCount(a, b) ==
    IF a >= b
    THEN 0
    ELSE Len(get_todo_methods(TaskOfPair(a).code)) + StubCount(a + 1, b)

\* C17: a model call is outstanding exactly while the process waits in
\* query(); a call is issued only when none is outstanding and every earlier
\* output of the pair is spliced and recorded; no write has a call outstanding.
C17_OneOutstandingCall ==
    [][ /\ call.active <=> (pc = "query")
        /\ call'.active <=> (pc' = "query")
        /\ (calls' = calls + 1) =>
              /\ ~call.active
              /\ call'.active
              /\ (mode # "holistic") =>
                    /\ Len(mediate) = ti - 1
                    /\ result = SpliceAll(TaskOfPair(idx).code, mediate)
        /\ (writes' = writes + 1) => (~call'.active /\ calls' = calls)
      ]_vars

\* The second model call of a pair is outstanding, after the first returned.
C17_Witness ==
    /\ mode = "incremental"
    /\ pc = "query" /\ call.active
    /\ ti = 2 /\ Len(mediate) = 1
    /\ calls >= 2

\* C18: a run skips as many pairs as the output holds Samples, whatever they
\* are: the Samples it writes are those of the pairs from that offset on;
\* started on k <= T*N Samples it ends with T*N, the first k as they were;
\* started on k >= T*N it makes no call and writes nothing.
C18_OffsetIsCount ==
    /\ (pc # "idle") =>
          /\ idx = Len(resume) + writes
          /\ Len(file) = Len(resume) + writes
          /\ IsPrefix(resume, file)
          /\ IsPrefix(file0, file)
    /\ \A i \in Written :
          /\ file[i].task_id = TaskOfPair(i - 1).task_id
          /\ file[i].target = TaskOfPair(i - 1).target
    /\ (pc = "done" /\ Len(resume) <= Len(tasks) * num_sample) =>
          /\ Len(file) = Len(tasks) * num_sample
          /\ writes = Len(tasks) * num_sample - Len(resume)
    /\ (pc # "idle" /\ Len(resume) >= Len(tasks) * num_sample) =>
          /\ pc \in {"loop", "done"}
          /\ calls = 0
          /\ writes = 0
          /\ file = resume

\* A first run that found one Sample of an unknown task has ended: it wrote
\* the Samples of pairs 1.. after it.
C18_Witness ==
    /\ runs = 1 /\ pc = "done"
    /\ Len(file0) = 1 /\ resume = file0
    /\ Len(tasks) * num_sample >= 3
    /\ Len(file) = Len(tasks) * num_sample
    /\ file[1] = Foreign
    /\ file[2].task_id = TaskOfPair(1).task_id

\* C19: a started run comes to an end; when it ends without a failure, having
\* started on k <= T*N Samples, it has processed and written T*N - k pairs and
\* issued one call per pair (holistic) or per located stub of each pair.
C19_TerminationAndCalls ==
    /\ [](pc \in {"loop", "stubs", "query"} => <>(pc \in {"done", "aborted"}))
    /\ []((pc = "done" /\ Len(resume) <= Len(tasks) * num_sample) =>
            /\ idx = Len(tasks) * num_sample
            /\ writes = Len(tasks) * num_sample - Len(resume)
            /\ Len(file) = Len(resume) + writes
            /\ calls = IF mode = "holistic"
                       THEN Len(tasks) * num_sample - Len(resume)
                       ELSE StubCount(Len(resume), Len(tasks) * num_sample))

\* A restarted run has ended after two model calls for three pairs, two of
\* them on a task with no stub.
C19_Witness ==
    /\ pc = "done" /\ runs = 2
    /\ mode # "holistic"
    /\ Len(resume) = 1
    /\ writes = 3 /\ calls = 2

\* C20: while the code of pair p does not parse (and the output did not
\* already hold more than p Samples), no run gets past p: the persisted list
\* never exceeds p Samples, no run ends normally, and a run that reaches pair
\* p aborts there.
C20_HeadOfLineBlocking ==
    [][ \A p \in 0..(Len(tasks) * num_sample - 1) :
          (mode # "holistic" /\ ~TaskOfPair(p).code.parses /\ Len(file0) <= p) =>
              /\ Len(file') <= p
              /\ idx' <= p
              /\ pc' # "done"
              /\ (pc = "loop" /\ idx = p) => (pc' = "aborted" /\ file' = file)
      ]_vars

\* The second run has aborted at the pair the first run aborted at, after one
\* persisted Sample.
C20_Witness ==
    /\ mode # "holistic"
    /\ runs = 2 /\ pc = "aborted"
    /\ idx = 1 /\ Len(file) = 1 /\ Len(resume) = 1 /\ writes = 0 /\ calls = 0
    /\ file0 = <<>>
    /\ ~TaskOfPair(1).code.parses

====
